---- MODULE Spec2Model ----
(***************************************************************************)
(* Real-time proximity chat and football ground server (socket.io).        *)
(* The state is the module-level state of the socket server: the players   *)
(* Map, the messageRateLimits Map, footballGround, plus the socket.io      *)
(* state the handlers rely on (which sockets are connected, who is in the  *)
(* 'football-ground' room) and the clock read by Date.now().               *)
(* Every handler runs to completion (single-threaded event loop), so each  *)
(* handler is one action.  What a handler emits is recorded in `out`.      *)
(***************************************************************************)
EXTENDS Integers, Sequences, FiniteSets, TLC

\* ------------------------------------------------------------------------
\* Program constants (CONFIG, FOOTBALL_CONFIG)
\* ------------------------------------------------------------------------
PROXIMITY_THRESHOLD == 200
PROXIMITY_THRESHOLD_SQ == 200 * 200
POSITION_UPDATE_THROTTLE == 50
MESSAGE_RATE_LIMIT == 5
MESSAGE_MAX_LENGTH == 200
RATE_WINDOW == 1000
FIELD_WIDTH == 800
FIELD_HEIGHT == 600
FIELD_PADDING == 50
GOAL_WIDTH == 80
GOAL_DEPTH == 25
BALL_MAX_SPEED == 20
BALL_SYNC_RATE == 33
KICK_COOLDOWN == 300
TICK_INTERVAL == 16
GOAL_RESET_DELAY == 3000
SWEEP_INTERVAL == 30000
IDLE_TIMEOUT == 300000

\* ------------------------------------------------------------------------
\* Bounds of the model
\* ------------------------------------------------------------------------
\* Date.now() when the server starts, and how long a run is followed.
StartTime == 100000
\* how far the clock runs in the rate-limit runs and in the throttle runs
RateMaxElapsed == 1600
MoveMaxElapsed == 100

\* socket ids handed out by socket.io (never reused after a disconnect)
Conns == {"s1", "s2", "s3"}

\* JavaScript undefined for a missing payload field
Undef == "undefined"

\* ------------------------------------------------------------------------
\* JavaScript Map: a sequence of values in insertion order, keyed by the
\* socketId field of each value.
\* ------------------------------------------------------------------------
MapHas(m, id) == \E i \in DOMAIN m : m[i].socketId = id

MapGet(m, id) == m[CHOOSE i \in DOMAIN m : m[i].socketId = id]

MapDelete(m, id) == SelectSeq(m, LAMBDA e : e.socketId # id)

MapSet(m, e) ==
    IF MapHas(m, e.socketId)
    THEN [i \in DOMAIN m |-> IF m[i].socketId = e.socketId THEN e ELSE m[i]]
    ELSE Append(m, e)

MapKeys(m) == {m[i].socketId : i \in DOMAIN m}

\* value || dflt  for string-valued payload fields
OrDefault(v, dflt) == IF v \in {Undef, ""} THEN dflt ELSE v

\* ------------------------------------------------------------------------
\* State
\* ------------------------------------------------------------------------
VARIABLES
    players,            \* players Map: socketId -> player record
    messageRateLimits,  \* messageRateLimits Map: socketId -> {count, resetTime}
    fbPlayers,          \* footballGround.players Map
    room,               \* sockets in the socket.io room 'football-ground'
    sock,               \* socket.io connection state of each socket id
    now,                \* Date.now()
    out,                \* emissions of the handler that ran last, in order
    last,               \* the event handled last and how the handler left
    passLog,            \* per socket: times of the messages that passed checkRateLimit
    prevPos,            \* per socket: the previous player:position event
    hasLeft,            \* sockets whose last registry event was an accepted player:leave
    kickLog,            \* per socket: time of its last accepted football:kick, 0 if none
    ball,               \* footballGround.ball
    score,              \* footballGround.score
    isPlaying,          \* footballGround.isPlaying
    lastBallSync,       \* footballGround.lastBallSync
    resetTimers,        \* due times of the pending goal-reset setTimeout callbacks
    tickAt,             \* earliest time of the next physics tick (setInterval 16)
    sweepAt             \* earliest time of the next idle sweep (setInterval 30000)

vars == <<players, messageRateLimits, fbPlayers, room, sock, now, out, last,
          passLog, prevPos, hasLeft, kickLog, ball, score, isPlaying, lastBallSync,
          resetTimers, tickAt, sweepAt>>

\* The part of the state the handlers read and write, as one record.
Server ==
    [players |-> players, limits |-> messageRateLimits, fb |-> fbPlayers,
     room |-> room, sock |-> sock, out |-> <<>>, res |-> "done",
     ball |-> ball, score |-> score, isPlaying |-> isPlaying,
     lastBallSync |-> lastBallSync, timers |-> resetTimers]

Open(st) == {c \in Conns : st.sock[c] = "open"}

\* one emission: event name, receiving sockets, socket the payload is about,
\* payload
Emit(st, ev, to, sid, data) ==
    [st EXCEPT !.out = Append(@, [ev |-> ev, to |-> to, sid |-> sid, data |-> data])]

\* ------------------------------------------------------------------------
\* Numbers of the football ground.  Lengths, velocities and spin are
\* fixed-point numbers counted in thousandths; products and quotients are
\* rounded to the nearest thousandth.  NaN and undefined are two values
\* outside the range of the numbers, and every operation treats them as
\* JavaScript does.
\* ------------------------------------------------------------------------
Scale == 10 * 10 * 10

NaN == 0 - 1000000000

UndefNum == 0 - 1000000001

IsNum(a) == a # NaN /\ a # UndefNum

Units(n) == n * Scale

RoundDiv(n, d) ==
    IF n >= 0 THEN (2 * n + d) \div (2 * d) ELSE 0 - ((2 * (0 - n) + d) \div (2 * d))

NumAdd(a, b) == IF IsNum(a) /\ IsNum(b) THEN a + b ELSE NaN

NumSub(a, b) == IF IsNum(a) /\ IsNum(b) THEN a - b ELSE NaN

\* a * b, both in thousandths
NumMul(a, b) == IF IsNum(a) /\ IsNum(b) THEN RoundDiv(a * b, Scale) ELSE NaN

NumLt(a, b) == IsNum(a) /\ IsNum(b) /\ a < b

NumGt(a, b) == IsNum(a) /\ IsNum(b) /\ a > b

NumAbs(a) == IF ~IsNum(a) THEN NaN ELSE IF a < 0 THEN 0 - a ELSE a

\* footballGround.ball as declared
InitialBall ==
    [x |-> Units(FIELD_WIDTH) \div 2, y |-> Units(FIELD_HEIGHT) \div 2,
     vx |-> 0, vy |-> 0, spin |-> 0, lastKickedBy |-> "null", lastKickTime |-> 0]

\* messageRateLimits.get(id) === undefined
NoLimit == [has |-> FALSE, count |-> 0, resetTime |-> 0]

Init ==
    /\ players = <<>>
    /\ messageRateLimits = [c \in Conns |-> NoLimit]
    /\ fbPlayers = <<>>
    /\ room = {}
    /\ sock = [c \in Conns |-> "new"]
    /\ now = StartTime
    /\ out = <<>>
    /\ last = [ev |-> "init", sid |-> Undef, res |-> "init"]
    /\ passLog = [c \in Conns |-> <<>>]
    /\ prevPos = [c \in Conns |-> [t |-> 0, res |-> "none"]]
    /\ hasLeft = {}
    /\ kickLog = [c \in Conns |-> 0]
    /\ ball = InitialBall
    /\ score = [red |-> 0, blue |-> 0]
    /\ isPlaying = TRUE
    /\ lastBallSync = 0
    /\ resetTimers = <<>>
    /\ tickAt = StartTime + TICK_INTERVAL
    /\ sweepAt = StartTime + SWEEP_INTERVAL

\* ------------------------------------------------------------------------
\* Helpers of the socket server
\* ------------------------------------------------------------------------
DistSq(p, o) == (p.x - o.x) * (p.x - o.x) + (p.y - o.y) * (p.y - o.y)

\* getNearbyPlayers comparing with < instead of <=
getNearbyPlayers_Strict(m, socketId, thresholdSq) ==
    IF ~MapHas(m, socketId) THEN <<>>
    ELSE LET player == MapGet(m, socketId)
             near == SelectSeq(m, LAMBDA other :
                        /\ other.socketId # socketId
                        /\ DistSq(player, other) < thresholdSq)
         IN [i \in DOMAIN near |->
                [socketId |-> near[i].socketId, userId |-> near[i].userId,
                 nickname |-> near[i].nickname, x |-> near[i].x, y |-> near[i].y,
                 lastUpdate |-> near[i].lastUpdate,
                 distSq |-> DistSq(player, near[i])]]

\* getNearbyPlayers: the other players within the threshold, in Map order,
\* each with its squared distance (the code reports Math.sqrt of it)
getNearbyPlayers(m, socketId, thresholdSq) ==
    IF ~MapHas(m, socketId) THEN <<>>
    ELSE LET player == MapGet(m, socketId)
             near == SelectSeq(m, LAMBDA other :
                        /\ other.socketId # socketId
                        /\ DistSq(player, other) <= thresholdSq)
         IN [i \in DOMAIN near |->
                [socketId |-> near[i].socketId, userId |-> near[i].userId,
                 nickname |-> near[i].nickname, x |-> near[i].x, y |-> near[i].y,
                 lastUpdate |-> near[i].lastUpdate,
                 distSq |-> DistSq(player, near[i])]]

\* checkRateLimit rejecting only above the limit (> instead of >=)
checkRateLimit_OffByOne(limits, socketId, t) ==
    LET limit == IF limits[socketId].has THEN limits[socketId]
                 ELSE [has |-> TRUE, count |-> 0, resetTime |-> t + RATE_WINDOW]
    IN IF t > limit.resetTime
       THEN [ok |-> TRUE,
             limits |-> [limits EXCEPT ![socketId] =
                           [has |-> TRUE, count |-> 1, resetTime |-> t + RATE_WINDOW]]]
       ELSE IF limit.count > MESSAGE_RATE_LIMIT
       THEN [ok |-> FALSE, limits |-> limits]
       ELSE [ok |-> TRUE,
             limits |-> [limits EXCEPT ![socketId] = [limit EXCEPT !.count = @ + 1]]]

\* checkRateLimit counting the message before it tests the limit
checkRateLimit_CountsRejected(limits, socketId, t) ==
    LET limit == IF limits[socketId].has THEN limits[socketId]
                 ELSE [has |-> TRUE, count |-> 0, resetTime |-> t + RATE_WINDOW]
        counted == [limits EXCEPT ![socketId] = [limit EXCEPT !.count = @ + 1]]
    IN IF t > limit.resetTime
       THEN [ok |-> TRUE,
             limits |-> [limits EXCEPT ![socketId] =
                           [has |-> TRUE, count |-> 1, resetTime |-> t + RATE_WINDOW]]]
       ELSE IF limit.count >= MESSAGE_RATE_LIMIT
       THEN [ok |-> FALSE, limits |-> counted]
       ELSE [ok |-> TRUE, limits |-> counted]

\* checkRateLimit restarting the count without opening a new window
checkRateLimit_StaleWindow(limits, socketId, t) ==
    LET limit == IF limits[socketId].has THEN limits[socketId]
                 ELSE [has |-> TRUE, count |-> 0, resetTime |-> t + RATE_WINDOW]
    IN IF t > limit.resetTime
       THEN [ok |-> TRUE,
             limits |-> [limits EXCEPT ![socketId] = [limit EXCEPT !.count = 1]]]
       ELSE IF limit.count >= MESSAGE_RATE_LIMIT
       THEN [ok |-> FALSE, limits |-> limits]
       ELSE [ok |-> TRUE,
             limits |-> [limits EXCEPT ![socketId] = [limit EXCEPT !.count = @ + 1]]]

\* checkRateLimit: whether the message passes, and the Map afterwards
checkRateLimit(limits, socketId, t) ==
    LET limit == IF limits[socketId].has THEN limits[socketId]
                 ELSE [has |-> TRUE, count |-> 0, resetTime |-> t + RATE_WINDOW]
    IN IF t > limit.resetTime
       THEN [ok |-> TRUE,
             limits |-> [limits EXCEPT ![socketId] =
                           [has |-> TRUE, count |-> 1, resetTime |-> t + RATE_WINDOW]]]
       ELSE IF limit.count >= MESSAGE_RATE_LIMIT
       THEN [ok |-> FALSE, limits |-> limits]
       ELSE [ok |-> TRUE,
             limits |-> [limits EXCEPT ![socketId] = [limit EXCEPT !.count = @ + 1]]]

\* A message payload is [type, val]: val is the string as a sequence of
\* one-character strings when type = "string".
IsSpace(ch) == ch \in {" ", "\t", "\n"}

RECURSIVE TrimStart(_)
TrimStart(s) == IF s # <<>> /\ IsSpace(Head(s)) THEN TrimStart(Tail(s)) ELSE s

RECURSIVE TrimEnd(_)
TrimEnd(s) ==
    IF s # <<>> /\ IsSpace(s[Len(s)]) THEN TrimEnd(SubSeq(s, 1, Len(s) - 1)) ELSE s

Trim(s) == TrimEnd(TrimStart(s))

Slice(s, n) == SubSeq(s, 1, IF Len(s) < n THEN Len(s) ELSE n)

RECURSIVE ReplaceAll(_, _, _)
ReplaceAll(s, ch, rep) ==
    IF s = <<>> THEN <<>>
    ELSE IF Len(s) = 1 THEN (IF s[1] = ch THEN rep ELSE s)
    ELSE LET half == Len(s) \div 2
         IN ReplaceAll(SubSeq(s, 1, half), ch, rep)
              \o ReplaceAll(SubSeq(s, half + 1, Len(s)), ch, rep)

\* null is the empty sequence: the caller only tests !message
Null == <<>>

\* sanitizeMessage without the three replace calls
sanitizeMessage_Unescaped(message) ==
    IF message.type # "string" \/ message.val = <<>> THEN Null
    ELSE LET trimmed == Slice(Trim(message.val), MESSAGE_MAX_LENGTH)
         IN IF Len(trimmed) = 0 THEN Null ELSE trimmed

sanitizeMessage(message) ==
    IF message.type # "string" \/ message.val = <<>> THEN Null
    ELSE LET trimmed == Slice(Trim(message.val), MESSAGE_MAX_LENGTH)
         IN IF Len(trimmed) = 0 THEN Null
            ELSE ReplaceAll(ReplaceAll(ReplaceAll(trimmed,
                    "<", <<"&", "l", "t", ";">>),
                    ">", <<"&", "g", "t", ";">>),
                    "\"", <<"&", "q", "u", "o", "t", ";">>)

\* ------------------------------------------------------------------------
\* Handlers, as functions of the server state
\* ------------------------------------------------------------------------

\* disconnect handler broadcasting player:left without looking the player up
OnDisconnect_AlwaysLeft(st0, id) ==
    LET st == [st0 EXCEPT !.sock[id] = "closed", !.room = @ \ {id}]
        s1 == [Emit(st, "player:left", Open(st) \ {id}, id, <<>>)
                 EXCEPT !.players = MapDelete(@, id), !.limits[id] = NoLimit]
        s2 == IF MapHas(s1.fb, id)
              THEN Emit([s1 EXCEPT !.fb = MapDelete(@, id)],
                        "football:playerLeft", s1.room \ {id}, id, <<>>)
              ELSE s1
    IN s2

\* disconnect handler with the football cleanup inside the if (player) block
OnDisconnect_FootballNested(st0, id) ==
    LET st == [st0 EXCEPT !.sock[id] = "closed", !.room = @ \ {id}]
        s1 == [Emit(st, "player:left", Open(st) \ {id}, id, <<>>)
                 EXCEPT !.players = MapDelete(@, id), !.limits[id] = NoLimit]
        s2 == IF MapHas(s1.fb, id)
              THEN Emit([s1 EXCEPT !.fb = MapDelete(@, id)],
                        "football:playerLeft", s1.room \ {id}, id, <<>>)
              ELSE s1
    IN IF MapHas(st.players, id) THEN s2 ELSE st

\* 'disconnect': socket.io first marks the socket disconnected and takes it
\* out of every room, then runs the handler.
OnDisconnect(st0, id) ==
    LET st == [st0 EXCEPT !.sock[id] = "closed", !.room = @ \ {id}]
        s1 == IF MapHas(st.players, id)
              THEN [Emit(st, "player:left", Open(st) \ {id}, id, <<>>)
                      EXCEPT !.players = MapDelete(@, id), !.limits[id] = NoLimit]
              ELSE st
        s2 == IF MapHas(s1.fb, id)
              THEN Emit([s1 EXCEPT !.fb = MapDelete(@, id)],
                        "football:playerLeft", s1.room \ {id}, id, <<>>)
              ELSE s1
    IN s2

\* duplicate scan matching on the nickname only
RECURSIVE EvictDuplicates_NicknameOnly(_, _, _, _, _)
EvictDuplicates_NicknameOnly(st, orig, i, id, data) ==
    IF i > Len(orig) THEN st
    ELSE LET existingPlayer == orig[i]
             existingSocketId == existingPlayer.socketId
         IN IF /\ existingSocketId # id
               /\ existingPlayer.nickname = data.nickname
            THEN LET s1 == Emit(st, "player:left", Open(st), existingSocketId, <<>>)
                     s2 == [s1 EXCEPT !.players = MapDelete(@, existingSocketId)]
                     s3 == IF s2.sock[existingSocketId] = "open"
                           THEN OnDisconnect(s2, existingSocketId)
                           ELSE s2
                 IN EvictDuplicates_NicknameOnly(s3, orig, i + 1, id, data)
            ELSE EvictDuplicates_NicknameOnly(st, orig, i + 1, id, data)

\* the duplicate scan of player:join: players.forEach over the entries
\* present when the handler starts (orig), evicting as it goes
RECURSIVE EvictDuplicates(_, _, _, _, _)
EvictDuplicates(st, orig, i, id, data) ==
    IF i > Len(orig) THEN st
    ELSE LET existingPlayer == orig[i]
             existingSocketId == existingPlayer.socketId
         IN IF /\ existingSocketId # id
               /\ \/ existingPlayer.userId = data.userId
                  \/ existingPlayer.nickname = data.nickname
            THEN LET s1 == Emit(st, "player:left", Open(st), existingSocketId, <<>>)
                     s2 == [s1 EXCEPT !.players = MapDelete(@, existingSocketId)]
                     s3 == IF s2.sock[existingSocketId] = "open"
                           THEN OnDisconnect(s2, existingSocketId)
                           ELSE s2
                 IN EvictDuplicates(s3, orig, i + 1, id, data)
            ELSE EvictDuplicates(st, orig, i + 1, id, data)

\* player:join sending the roster without leaving the joiner out
OnPlayerJoin_ListsSelf(st, id, data, t) ==
    LET s1 == EvictDuplicates(st, st.players, 1, id, data)
        entry == [socketId |-> id, userId |-> data.userId,
                  nickname |-> OrDefault(data.nickname, "Anonymous"),
                  x |-> data.x, y |-> data.y, lastUpdate |-> t]
        s2 == [s1 EXCEPT !.players = MapSet(@, entry)]
        s3 == Emit(s2, "player:joined", Open(s2) \ {id}, id, entry)
    IN Emit(s3, "players:list", {id}, id, s3.players)

OnPlayerJoin(st, id, data, t) ==
    LET s1 == EvictDuplicates(st, st.players, 1, id, data)
        entry == [socketId |-> id, userId |-> data.userId,
                  nickname |-> OrDefault(data.nickname, "Anonymous"),
                  x |-> data.x, y |-> data.y, lastUpdate |-> t]
        s2 == [s1 EXCEPT !.players = MapSet(@, entry)]
        s3 == Emit(s2, "player:joined", Open(s2) \ {id}, id, entry)
        otherPlayers == SelectSeq(s3.players, LAMBDA p : p.socketId # id)
    IN Emit(s3, "players:list", {id}, id, otherPlayers)

OnPlayerPosition(st, id, data, t) ==
    IF ~MapHas(st.players, id) THEN [st EXCEPT !.res = "ignored"]
    ELSE LET player == MapGet(st.players, id)
         IN IF t - player.lastUpdate < POSITION_UPDATE_THROTTLE
            THEN [st EXCEPT !.res = "throttled"]
            ELSE LET s1 == [st EXCEPT !.players = MapSet(@,
                               [player EXCEPT !.x = data.x, !.y = data.y,
                                              !.lastUpdate = t])]
                     s2 == Emit(s1, "player:moved", Open(s1) \ {id}, id,
                                [x |-> data.x, y |-> data.y])
                 IN [Emit(s2, "players:nearby", {id}, id,
                          getNearbyPlayers(s2.players, id, PROXIMITY_THRESHOLD_SQ))
                       EXCEPT !.res = "applied"]

\* io.to(nearbyPlayer.socketId).emit for each nearby player in turn
RECURSIVE EmitToEach(_, _, _, _, _, _)
EmitToEach(st, list, i, ev, sid, data) ==
    IF i > Len(list) THEN st
    ELSE EmitToEach(Emit(st, ev, {list[i].socketId} \cap Open(st), sid, data),
                    list, i + 1, ev, sid, data)

\* chat:message charging the rate limit before it looks the sender up
OnChatMessage_LimitFirst(st, id, data, t) ==
    LET rl == checkRateLimit(st.limits, id, t)
    IN IF ~MapHas(st.players, id) THEN [st EXCEPT !.limits = rl.limits, !.res = "ignored"]
       ELSE LET player == MapGet(st.players, id)
            IN IF ~rl.ok
               THEN [Emit([st EXCEPT !.limits = rl.limits], "chat:error", {id}, id, <<>>)
                       EXCEPT !.res = "rejected"]
               ELSE LET s1 == [st EXCEPT !.limits = rl.limits]
                        message == sanitizeMessage(data.message)
                    IN IF message = Null THEN [s1 EXCEPT !.res = "empty"]
                       ELSE LET chatMessage ==
                                    [senderId |-> id, senderName |-> player.nickname,
                                     message |-> message, x |-> player.x,
                                     y |-> player.y, timestamp |-> t]
                                s2 == Emit(s1, "chat:received", {id}, id, chatMessage)
                                nearbyPlayers == getNearbyPlayers(s2.players, id,
                                                     PROXIMITY_THRESHOLD_SQ)
                            IN [EmitToEach(s2, nearbyPlayers, 1, "chat:received",
                                           id, chatMessage)
                                  EXCEPT !.res = "delivered"]

OnChatMessage(st, id, data, t) ==
    IF ~MapHas(st.players, id) THEN [st EXCEPT !.res = "ignored"]
    ELSE LET player == MapGet(st.players, id)
             rl == checkRateLimit(st.limits, id, t)
         IN IF ~rl.ok
            THEN [Emit([st EXCEPT !.limits = rl.limits], "chat:error", {id}, id, <<>>)
                    EXCEPT !.res = "rejected"]
            ELSE LET s1 == [st EXCEPT !.limits = rl.limits]
                     message == sanitizeMessage(data.message)
                 IN IF message = Null THEN [s1 EXCEPT !.res = "empty"]
                    ELSE LET chatMessage ==
                                 [senderId |-> id, senderName |-> player.nickname,
                                  message |-> message, x |-> player.x,
                                  y |-> player.y, timestamp |-> t]
                             s2 == Emit(s1, "chat:received", {id}, id, chatMessage)
                             nearbyPlayers == getNearbyPlayers(s2.players, id,
                                                  PROXIMITY_THRESHOLD_SQ)
                         IN [EmitToEach(s2, nearbyPlayers, 1, "chat:received",
                                        id, chatMessage)
                               EXCEPT !.res = "delivered"]

\* player:leave without the if (player) guard
OnPlayerLeave_Unguarded(st, id) ==
    [Emit(st, "player:left", Open(st) \ {id}, id, <<>>)
       EXCEPT !.players = MapDelete(@, id), !.limits[id] = NoLimit,
              !.res = IF MapHas(st.players, id) THEN "left" ELSE "ignored"]

OnPlayerLeave(st, id) ==
    IF MapHas(st.players, id)
    THEN [Emit(st, "player:left", Open(st) \ {id}, id, <<>>)
            EXCEPT !.players = MapDelete(@, id), !.limits[id] = NoLimit,
                   !.res = "left"]
    ELSE [st EXCEPT !.res = "ignored"]

\* football:join; rnd is the outcome of Math.random() > 0.5 ? 'red' : 'blue'.
\* A fresh record has no lastKickTime (0 here: the code only tests its
\* truthiness).
OnFootballJoin(st, id, data, rnd, t) ==
    LET playerData == [socketId |-> id,
                       team |-> IF data.team \in {Undef, ""} THEN rnd ELSE data.team,
                       x |-> FIELD_WIDTH \div 2, y |-> FIELD_HEIGHT \div 2,
                       vx |-> 0, vy |-> 0, lastUpdate |-> t, lastKickTime |-> 0]
        s1 == [st EXCEPT !.fb = MapSet(@, playerData), !.room = @ \cup {id}]
        s2 == Emit(s1, "football:playerJoined", s1.room \ {id}, id, playerData)
        otherPlayers == SelectSeq(s2.fb, LAMBDA p : p.socketId # id)
        s3 == Emit(s2, "football:playersList", {id}, id, otherPlayers)
    IN Emit(s3, "football:gameState", {id}, id,
            [ball |-> s3.ball, score |-> s3.score, isPlaying |-> s3.isPlaying])

\* football:leave without socket.leave
OnFootballLeave_KeepsRoom(st, id) ==
    IF MapHas(st.fb, id)
    THEN Emit([st EXCEPT !.fb = MapDelete(@, id), !.res = "left"],
              "football:playerLeft", st.room \ {id}, id, <<>>)
    ELSE [st EXCEPT !.res = "ignored"]

OnFootballLeave(st, id) ==
    IF MapHas(st.fb, id)
    THEN Emit([st EXCEPT !.fb = MapDelete(@, id), !.room = @ \ {id}, !.res = "left"],
              "football:playerLeft", st.room \ {id}, id, <<>>)
    ELSE [st EXCEPT !.res = "ignored"]

\* a handler reading a property of an absent payload: the TypeError leaves
\* the handler at that point, with what it had written so far
Throws(st) == [st EXCEPT !.res = "TypeError"]

\* player:join without a payload: the destructuring in its first line throws
OnPlayerJoinNoPayload(st, id) == Throws(st)

\* football:kick without a payload: data.vx is read after the three guards
OnFootballKickNoPayload(st, id, t) ==
    IF ~MapHas(st.fb, id) \/ ~st.isPlaying THEN [st EXCEPT !.res = "ignored"]
    ELSE LET player == MapGet(st.fb, id)
         IN IF player.lastKickTime # 0 /\ t - player.lastKickTime < KICK_COOLDOWN
            THEN [st EXCEPT !.res = "cooldown"]
            ELSE Throws(st)

\* a kick that adds its vector to the ball's velocity
OnFootballKick_Adds(st, id, data, t) ==
    IF ~MapHas(st.fb, id) \/ ~st.isPlaying THEN [st EXCEPT !.res = "ignored"]
    ELSE LET player == MapGet(st.fb, id)
         IN IF player.lastKickTime # 0 /\ t - player.lastKickTime < KICK_COOLDOWN
            THEN [st EXCEPT !.res = "cooldown"]
            ELSE LET kicked == [st.ball EXCEPT
                                  !.vx = NumAdd(@, data.vx), !.vy = NumAdd(@, data.vy),
                                  !.spin = IF data.spin \in {0, NaN, UndefNum}
                                           THEN 0 ELSE data.spin,
                                  !.lastKickedBy = id, !.lastKickTime = t]
                     s1 == [st EXCEPT !.ball = kicked,
                                      !.fb = MapSet(@, [player EXCEPT !.lastKickTime = t]),
                                      !.res = "kicked"]
                 IN Emit(s1, "football:ballUpdate", s1.room, id, s1.ball)

\* football:kick
OnFootballKick(st, id, data, t) ==
    IF ~MapHas(st.fb, id) \/ ~st.isPlaying THEN [st EXCEPT !.res = "ignored"]
    ELSE LET player == MapGet(st.fb, id)
         IN IF player.lastKickTime # 0 /\ t - player.lastKickTime < KICK_COOLDOWN
            THEN [st EXCEPT !.res = "cooldown"]
            ELSE LET kicked == [st.ball EXCEPT
                                  !.vx = data.vx, !.vy = data.vy,
                                  !.spin = IF data.spin \in {0, NaN, UndefNum}
                                           THEN 0 ELSE data.spin,
                                  !.lastKickedBy = id, !.lastKickTime = t]
                     s1 == [st EXCEPT !.ball = kicked,
                                      !.fb = MapSet(@, [player EXCEPT !.lastKickTime = t]),
                                      !.res = "kicked"]
                 IN Emit(s1, "football:ballUpdate", s1.room, id, s1.ball)

\* Math.sqrt of a sum of squares of thousandths, to the nearest thousandth
RECURSIVE FloorSqrt(_, _, _)
FloorSqrt(n, lo, hi) ==
    IF lo >= hi THEN lo
    ELSE LET mid == (lo + hi + 1) \div 2
         IN IF mid * mid <= n THEN FloorSqrt(n, mid, hi) ELSE FloorSqrt(n, lo, mid - 1)

Sqrt(n) == LET r == FloorSqrt(n, 0, 46339) IN IF n - r * r > r THEN r + 1 ELSE r

\* a / b, both in thousandths
NumDiv(a, b) == IF IsNum(a) /\ IsNum(b) /\ b # 0 THEN RoundDiv(a * Scale, b) ELSE NaN

\* Math.sqrt(vx ** 2 + vy ** 2); a velocity whose square leaves the integer
\* range is squared in hundredths
Speed(vx, vy) ==
    IF ~(IsNum(vx) /\ IsNum(vy)) THEN NaN
    ELSE IF NumAbs(vx) <= 30 * Scale /\ NumAbs(vy) <= 30 * Scale
    THEN Sqrt(vx * vx + vy * vy)
    ELSE 10 * Sqrt(RoundDiv(vx, 10) * RoundDiv(vx, 10) + RoundDiv(vy, 10) * RoundDiv(vy, 10))

GoalTop == (Units(FIELD_HEIGHT) - Units(GOAL_WIDTH)) \div 2

GoalBottom == GoalTop + Units(GOAL_WIDTH)

LeftGoalLine == Units(FIELD_PADDING) - Units(GOAL_DEPTH) \div 2

RightGoalLine == Units(FIELD_WIDTH) - Units(FIELD_PADDING) + Units(GOAL_DEPTH) \div 2

\* integration with the velocity that friction has already reduced
Integrate_Damped(b) ==
    [b EXCEPT !.x = NumAdd(b.x, NumMul(b.vx, 985)), !.y = NumAdd(b.y, NumMul(b.vy, 985))]

\* ball.x += ball.vx; ball.y += ball.vy
Integrate(b) == [b EXCEPT !.x = NumAdd(b.x, b.vx), !.y = NumAdd(b.y, b.vy)]

\* the spin effect: vx is updated first and the new vx enters vy
ApplySpin(b) ==
    IF b.spin = 0 THEN b
    ELSE LET vx == NumAdd(b.vx, NumMul(NumMul(b.vy, b.spin), 10))
             vy == NumSub(b.vy, NumMul(NumMul(vx, b.spin), 10))
         IN [b EXCEPT !.vx = vx, !.vy = vy, !.spin = NumMul(b.spin, 980)]

\* BALL_FRICTION 0.985
ApplyFriction(b) == [b EXCEPT !.vx = NumMul(b.vx, 985), !.vy = NumMul(b.vy, 985)]

ClampSmall(b) ==
    [b EXCEPT !.vx = IF NumLt(NumAbs(b.vx), 10) THEN 0 ELSE b.vx,
              !.vy = IF NumLt(NumAbs(b.vy), 10) THEN 0 ELSE b.vy]

ClampSpeed(b) ==
    LET speed == Speed(b.vx, b.vy)
    IN IF NumGt(speed, Units(BALL_MAX_SPEED))
       THEN [b EXCEPT !.vx = NumMul(NumDiv(b.vx, speed), Units(BALL_MAX_SPEED)),
                      !.vy = NumMul(NumDiv(b.vy, speed), Units(BALL_MAX_SPEED))]
       ELSE b

\* 'blue', 'red' or "null"
GoalScored(b) ==
    IF NumLt(b.x, LeftGoalLine) /\ NumGt(b.y, GoalTop) /\ NumLt(b.y, GoalBottom)
    THEN "blue"
    ELSE IF NumGt(b.x, RightGoalLine) /\ NumGt(b.y, GoalTop) /\ NumLt(b.y, GoalBottom)
    THEN "red"
    ELSE "null"

\* BALL_BOUNCE 0.7; the four tests run in this order on the updated ball
WallCollisions(b) ==
    LET b1 == IF NumLt(b.y, Units(FIELD_PADDING))
              THEN [b EXCEPT !.y = Units(FIELD_PADDING), !.vy = NumMul(b.vy, 0 - 700)]
              ELSE b
        b2 == IF NumGt(b1.y, Units(FIELD_HEIGHT) - Units(FIELD_PADDING))
              THEN [b1 EXCEPT !.y = Units(FIELD_HEIGHT) - Units(FIELD_PADDING),
                              !.vy = NumMul(b1.vy, 0 - 700)]
              ELSE b1
        b3 == IF /\ NumLt(b2.x, Units(FIELD_PADDING))
                 /\ (NumLt(b2.y, GoalTop) \/ NumGt(b2.y, GoalBottom))
              THEN [b2 EXCEPT !.x = Units(FIELD_PADDING), !.vx = NumMul(b2.vx, 0 - 700)]
              ELSE b2
        b4 == IF /\ NumGt(b3.x, Units(FIELD_WIDTH) - Units(FIELD_PADDING))
                 /\ (NumLt(b3.y, GoalTop) \/ NumGt(b3.y, GoalBottom))
              THEN [b3 EXCEPT !.x = Units(FIELD_WIDTH) - Units(FIELD_PADDING),
                              !.vx = NumMul(b3.vx, 0 - 700)]
              ELSE b3
    IN b4

\* a tick that only looks at the registry
TickSkips_EmptyOnly(st) == Len(st.fb) = 0

\* the two early returns of the tick
TickSkips(st) == Len(st.fb) = 0 \/ ~st.isPlaying

\* the callback of the physics setInterval
OnPhysicsTick(st, t) ==
    IF TickSkips(st) THEN [st EXCEPT !.res = "skipped"]
    ELSE LET b == ClampSpeed(ClampSmall(ApplyFriction(ApplySpin(Integrate(st.ball)))))
             goalScored == GoalScored(b)
         IN IF goalScored # "null"
            THEN LET s1 == [st EXCEPT !.ball = b,
                                      !.score[goalScored] = @ + 1,
                                      !.isPlaying = FALSE,
                                      !.timers = Append(@, t + GOAL_RESET_DELAY),
                                      !.res = "goal"]
                 IN Emit(s1, "football:goalScored", s1.room, b.lastKickedBy,
                         [team |-> goalScored, score |-> s1.score,
                          scoredBy |-> b.lastKickedBy])
            ELSE LET s1 == [st EXCEPT !.ball = WallCollisions(b), !.res = "moved"]
                 IN IF t - s1.lastBallSync > BALL_SYNC_RATE
                    THEN [Emit(s1, "football:ballUpdate", s1.room, Undef, s1.ball)
                            EXCEPT !.lastBallSync = t]
                    ELSE s1

\* a reset that re-centres the ball but leaves the match paused
OnGoalReset_KeepsPaused(st) ==
    LET fresh == [x |-> Units(FIELD_WIDTH) \div 2, y |-> Units(FIELD_HEIGHT) \div 2,
                  vx |-> 0, vy |-> 0, spin |-> UndefNum, lastKickedBy |-> "null",
                  lastKickTime |-> UndefNum]
        s1 == [st EXCEPT !.ball = fresh, !.timers = Tail(@)]
    IN Emit(s1, "football:gameState", s1.room, Undef,
            [ball |-> s1.ball, score |-> s1.score, isPlaying |-> s1.isPlaying])

\* a reset that gives up when nobody is left on the ground
OnGoalReset_NeedsPlayers(st) ==
    IF Len(st.fb) = 0 THEN [st EXCEPT !.timers = Tail(@)]
    ELSE LET fresh == [x |-> Units(FIELD_WIDTH) \div 2, y |-> Units(FIELD_HEIGHT) \div 2,
                       vx |-> 0, vy |-> 0, spin |-> UndefNum, lastKickedBy |-> "null",
                       lastKickTime |-> UndefNum]
             s1 == [st EXCEPT !.ball = fresh, !.isPlaying = TRUE, !.timers = Tail(@)]
         IN Emit(s1, "football:gameState", s1.room, Undef,
                 [ball |-> s1.ball, score |-> s1.score, isPlaying |-> TRUE])

\* the setTimeout callback scheduled by a goal: the new ball object has no
\* spin and no lastKickTime
OnGoalReset(st) ==
    LET fresh == [x |-> Units(FIELD_WIDTH) \div 2, y |-> Units(FIELD_HEIGHT) \div 2,
                  vx |-> 0, vy |-> 0, spin |-> UndefNum, lastKickedBy |-> "null",
                  lastKickTime |-> UndefNum]
        s1 == [st EXCEPT !.ball = fresh, !.isPlaying = TRUE, !.timers = Tail(@)]
    IN Emit(s1, "football:gameState", s1.room, Undef,
            [ball |-> s1.ball, score |-> s1.score, isPlaying |-> TRUE])

\* the idle sweep removing entries already at the timeout (>= instead of >)
RECURSIVE SweepFrom_AtTimeout(_, _, _, _)
SweepFrom_AtTimeout(st, orig, i, t) ==
    IF i > Len(orig) THEN st
    ELSE LET socketId == orig[i].socketId
         IN IF t - orig[i].lastUpdate >= IDLE_TIMEOUT
            THEN LET s1 == Emit(st, "connection:timeout", {socketId} \cap Open(st),
                                socketId, <<>>)
                     s2 == Emit(s1, "player:left", Open(s1), socketId, <<>>)
                 IN SweepFrom_AtTimeout([s2 EXCEPT !.players = MapDelete(@, socketId)],
                                        orig, i + 1, t)
            ELSE SweepFrom_AtTimeout(st, orig, i + 1, t)

\* the idle sweep: players.forEach over the entries present when it starts
RECURSIVE SweepFrom(_, _, _, _)
SweepFrom(st, orig, i, t) ==
    IF i > Len(orig) THEN st
    ELSE LET socketId == orig[i].socketId
         IN IF t - orig[i].lastUpdate > IDLE_TIMEOUT
            THEN LET s1 == Emit(st, "connection:timeout", {socketId} \cap Open(st),
                                socketId, <<>>)
                     s2 == Emit(s1, "player:left", Open(s1), socketId, <<>>)
                 IN SweepFrom([s2 EXCEPT !.players = MapDelete(@, socketId)],
                              orig, i + 1, t)
            ELSE SweepFrom(st, orig, i + 1, t)

OnIdleSweep(st, t) == SweepFrom(st, st.players, 1, t)

\* ------------------------------------------------------------------------
\* Actions: one per inbound event, plus the clock
\* ------------------------------------------------------------------------
PassesKept == MESSAGE_RATE_LIMIT + 1

KeepLast(s, n) == IF Len(s) > n THEN SubSeq(s, Len(s) - n + 1, Len(s)) ELSE s

\* the state after a callback has run to completion (interval timers apart)
CommitState(st, ev, id) ==
    /\ players' = st.players
    /\ messageRateLimits' = st.limits
    /\ fbPlayers' = st.fb
    /\ room' = st.room
    /\ sock' = st.sock
    /\ ball' = st.ball
    /\ score' = st.score
    /\ isPlaying' = st.isPlaying
    /\ lastBallSync' = st.lastBallSync
    /\ resetTimers' = st.timers
    /\ out' = st.out
    /\ last' = [ev |-> ev, sid |-> id, res |-> st.res]
    /\ passLog' = [k \in Conns |->
                     IF ~st.limits[k].has THEN <<>>
                     ELSE IF k = id /\ ev = "chat:message"
                             /\ st.res \in {"delivered", "empty"}
                     THEN KeepLast(Append(passLog[k], now), PassesKept)
                     ELSE passLog[k]]
    /\ prevPos' = IF ev = "player:position" /\ st.res # "closed"
                  THEN [prevPos EXCEPT ![id] = [t |-> now, res |-> st.res]]
                  ELSE prevPos
    /\ hasLeft' = IF ev = "player:leave" /\ st.res = "left" THEN hasLeft \cup {id}
                  ELSE IF ev = "player:join" /\ st.res # "closed" THEN hasLeft \ {id}
                  ELSE hasLeft
    /\ kickLog' = IF ev = "football:kick" /\ st.res = "kicked"
                  THEN [kickLog EXCEPT ![id] = now]
                  ELSE kickLog
    /\ now' = now

\* the state after an event handler has run to completion
Commit(st, ev, id) == CommitState(st, ev, id) /\ UNCHANGED <<tickAt, sweepAt>>

\* socket.io hands an event to the handlers of a connected socket only
Dispatch(id, st) == IF sock[id] = "open" THEN st ELSE [Server EXCEPT !.res = "closed"]

Connect(c) ==
    /\ sock[c] = "new"
    /\ Commit([Server EXCEPT !.sock[c] = "open"], "connection", c)

Disconnect(c) ==
    /\ sock[c] = "open"
    /\ Commit(OnDisconnect(Server, c), "disconnect", c)

PlayerJoin(c, data) ==
    /\ sock[c] # "new"
    /\ Commit(Dispatch(c, OnPlayerJoin(Server, c, data, now)), "player:join", c)

PlayerPosition(c, data) ==
    /\ sock[c] # "new"
    /\ Commit(Dispatch(c, OnPlayerPosition(Server, c, data, now)), "player:position", c)

ChatMessage(c, data) ==
    /\ sock[c] # "new"
    /\ Commit(Dispatch(c, OnChatMessage(Server, c, data, now)), "chat:message", c)

PlayerLeave(c) ==
    /\ sock[c] # "new"
    /\ Commit(Dispatch(c, OnPlayerLeave(Server, c)), "player:leave", c)

FootballJoin(c, data, rnd) ==
    /\ sock[c] # "new"
    /\ Commit(Dispatch(c, OnFootballJoin(Server, c, data, rnd, now)), "football:join", c)

FootballLeave(c) ==
    /\ sock[c] # "new"
    /\ Commit(Dispatch(c, OnFootballLeave(Server, c)), "football:leave", c)

FootballKick(c, data) ==
    /\ sock[c] # "new"
    /\ Commit(Dispatch(c, OnFootballKick(Server, c, data, now)), "football:kick", c)

PlayerJoinNoPayload(c) ==
    /\ sock[c] # "new"
    /\ Commit(Dispatch(c, OnPlayerJoinNoPayload(Server, c)), "player:join", c)

FootballKickNoPayload(c) ==
    /\ sock[c] # "new"
    /\ Commit(Dispatch(c, OnFootballKickNoPayload(Server, c, now)), "football:kick", c)

\* the setInterval callback of the physics loop, not earlier than its period
\* after the previous one
PhysicsTick ==
    /\ now >= tickAt
    /\ CommitState(OnPhysicsTick(Server, now), "physics:tick", Undef)
    /\ tickAt' = now + TICK_INTERVAL
    /\ UNCHANGED sweepAt

\* the goal reset, when its delay has run out
GoalReset ==
    /\ resetTimers # <<>>
    /\ now >= resetTimers[1]
    /\ Commit(OnGoalReset(Server), "goal:reset", Undef)

\* the setInterval callback of the idle sweep, not earlier than its period
\* after the previous one
IdleSweep ==
    /\ now >= sweepAt
    /\ CommitState(OnIdleSweep(Server, now), "idle:sweep", Undef)
    /\ sweepAt' = now + SWEEP_INTERVAL
    /\ UNCHANGED tickAt

\* time passes between two callbacks: at most up to the due time of a
\* pending goal reset, which runs before the clock moves on; a pending reset
\* is waited for even beyond the horizon of the run
Advance(dt, maxElapsed) ==
    /\ now + dt <= StartTime + maxElapsed \/ resetTimers # <<>>
    /\ resetTimers # <<>> => now < resetTimers[1]
    /\ now' = IF resetTimers # <<>> /\ resetTimers[1] < now + dt
              THEN resetTimers[1] ELSE now + dt
    /\ out' = <<>>
    /\ last' = [ev |-> "clock", sid |-> Undef, res |-> "done"]
    /\ UNCHANGED <<players, messageRateLimits, fbPlayers, room, sock,
                   passLog, prevPos, hasLeft, kickLog, ball, score, isPlaying,
                   lastBallSync, resetTimers, tickAt, sweepAt>>

\* ------------------------------------------------------------------------
\* Inputs
\* ------------------------------------------------------------------------
Str(s) == [type |-> "string", val |-> s]

Points == {<<0, 0>>, <<200, 0>>, <<201, 0>>, <<120, 160>>}

JoinData(userIds, nicknames, points) ==
    {[userId |-> u, nickname |-> n, x |-> p[1], y |-> p[2]] :
        u \in userIds, n \in nicknames, p \in points}

PosData(points) == {[x |-> p[1], y |-> p[2]] : p \in points}

\* ------------------------------------------------------------------------
\* Presence: joins, duplicate eviction, leave, disconnect, football room
\* ------------------------------------------------------------------------
\* the clock stands still in these two specifications: everything happens
\* within one millisecond
ChatConns == {"s1"}

NextPresence ==
    \/ \E c \in Conns : Connect(c)
    \/ \E c \in Conns : Disconnect(c)
    \/ \E c \in Conns :
         \E data \in JoinData({"u1", Undef}, {"ann", Undef}, {<<0, 0>>}) :
            PlayerJoin(c, data)
    \/ \E c \in Conns : PlayerLeave(c)
    \/ \E c \in ChatConns : \E data \in PosData({<<200, 0>>}) : PlayerPosition(c, data)
    \/ \E c \in ChatConns : ChatMessage(c, [message |-> Str(<<"h", "i">>)])

SpecPresence == Init /\ [][NextPresence]_vars

\* ------------------------------------------------------------------------
\* Rooms: the general world together with the football ground
\* ------------------------------------------------------------------------
FootballConns == {"s1", "s2"}

NextRooms ==
    \/ \E c \in Conns : Connect(c)
    \/ \E c \in Conns : Disconnect(c)
    \/ \E c \in Conns :
         \E data \in JoinData({"u1", "u2"}, {Undef}, {<<0, 0>>}) : PlayerJoin(c, data)
    \/ \E c \in Conns : PlayerLeave(c)
    \/ \E c \in ChatConns : ChatMessage(c, [message |-> Str(<<"h", "i">>)])
    \/ \E c \in FootballConns : \E t \in {"red", Undef} :
         FootballJoin(c, [team |-> t], "red")
    \/ \E c \in FootballConns : FootballLeave(c)

SpecRooms == Init /\ [][NextRooms]_vars

\* ------------------------------------------------------------------------
\* Proximity: who receives a chat message (clock standing still)
\* ------------------------------------------------------------------------
\* each socket joins under a user id of its own
OwnJoin(c, points) ==
    {[userId |-> c, nickname |-> Undef, x |-> p[1], y |-> p[2]] : p \in points}

NextProximity ==
    \/ \E c \in Conns : Connect(c)
    \/ \E c \in Conns : Disconnect(c)
    \/ \E c \in Conns : \E data \in OwnJoin(c, Points) : PlayerJoin(c, data)
    \/ \E c \in Conns : PlayerLeave(c)
    \/ \E c \in ChatConns :
         \E m \in {Str(<<"h", "i">>), Str(<<" ">>)} : ChatMessage(c, [message |-> m])

SpecProximity == Init /\ [][NextProximity]_vars

\* ------------------------------------------------------------------------
\* Rate limit: one sender, one listener, the clock moving in steps
\* ------------------------------------------------------------------------
RateStep == 400

RateConns == {"s1", "s2"}

NextRate ==
    \/ \E c \in RateConns : Connect(c)
    \/ \E c \in RateConns : Disconnect(c)
    \/ \E c \in RateConns : \E data \in OwnJoin(c, {<<0, 0>>}) : PlayerJoin(c, data)
    \/ \E c \in ChatConns : PlayerLeave(c)
    \/ \E c \in ChatConns : ChatMessage(c, [message |-> Str(<<"h", "i">>)])
    \/ Advance(RateStep, RateMaxElapsed)

SpecRate == Init /\ [][NextRate]_vars

\* ------------------------------------------------------------------------
\* Throttle: position updates with the clock moving in steps
\* ------------------------------------------------------------------------
MoveStep == 25

NextMove ==
    \/ \E c \in RateConns : Connect(c)
    \/ \E c \in RateConns : Disconnect(c)
    \/ \E c \in RateConns : \E data \in OwnJoin(c, {<<0, 0>>}) : PlayerJoin(c, data)
    \/ \E c \in ChatConns : PlayerLeave(c)
    \/ \E c \in ChatConns : \E data \in PosData({<<200, 0>>, <<201, 0>>}) :
         PlayerPosition(c, data)
    \/ Advance(MoveStep, MoveMaxElapsed)

SpecMove == Init /\ [][NextMove]_vars

\* ------------------------------------------------------------------------
\* Idle sweep: the clock moving in steps of half the timeout
\* ------------------------------------------------------------------------
SweepStep == 150000

SweepMaxElapsed == 450000

NextSweep ==
    \/ \E c \in Conns : Connect(c)
    \/ \E c \in Conns : Disconnect(c)
    \/ \E c \in Conns : \E data \in OwnJoin(c, {<<0, 0>>}) : PlayerJoin(c, data)
    \/ \E c \in ChatConns : \E data \in PosData({<<200, 0>>}) : PlayerPosition(c, data)
    \/ IdleSweep
    \/ Advance(SweepStep, SweepMaxElapsed)

SpecSweep == Init /\ [][NextSweep]_vars

\* ------------------------------------------------------------------------
\* Football ground: kicks, physics ticks, goals and the delayed reset
\* ------------------------------------------------------------------------
BallStep == 1500

BallMaxElapsed == 1500

\* kicks stop once this many goals have been scored
MaxGoals == 1

Kick(vx, vy, spin) == [vx |-> vx, vy |-> vy, spin |-> spin]

\* a shot into the left goal mouth, one along its upper edge, a shot into the
\* right goal mouth, and a slow curling pass
Kicks ==
    {Kick(0 - Units(370), 0, UndefNum), Kick(0 - Units(370), 0 - Units(40), UndefNum),
     Kick(Units(370), 0, 0), Kick(Units(3), Units(4), Scale \div 2)}

NextBall ==
    \/ \E c \in FootballConns : Connect(c)
    \/ \E c \in ChatConns : \E data \in OwnJoin(c, {<<0, 0>>}) : PlayerJoin(c, data)
    \/ \E c \in FootballConns : Disconnect(c)
    \/ \E c \in FootballConns : FootballJoin(c, [team |-> "red"], "red")
    \/ \E c \in FootballConns : FootballLeave(c)
    \/ \E c \in ChatConns : \E data \in Kicks :
         score.red + score.blue < MaxGoals /\ FootballKick(c, data)
    \/ PhysicsTick
    \/ GoalReset
    \/ Advance(BallStep, BallMaxElapsed)

SpecBall == Init /\ [][NextBall]_vars

\* timers that are due do fire, and the clock does not stop
SpecBallFair ==
    SpecBall /\ WF_vars(GoalReset) /\ WF_vars(Advance(BallStep, BallMaxElapsed))

\* ------------------------------------------------------------------------
\* Kick cooldown: two players kicking, leaving and joining within 300 ms
\* ------------------------------------------------------------------------
KickStep == 150

KickMaxElapsed == 300

Passes == {Kick(Units(3), Units(4), Scale \div 2), Kick(0 - Units(5), 0, UndefNum)}

NextKick ==
    \/ \E c \in FootballConns : Connect(c)
    \/ \E c \in FootballConns : FootballJoin(c, [team |-> Undef], "blue")
    \/ \E c \in FootballConns : FootballLeave(c)
    \/ \E c \in FootballConns : \E data \in Passes : FootballKick(c, data)
    \/ PhysicsTick
    \/ Advance(KickStep, KickMaxElapsed)

SpecKick == Init /\ [][NextKick]_vars

\* ------------------------------------------------------------------------
\* Chat texts: markup, blanks, over-long texts and a payload that is no string,
\* all sent within one millisecond
\* ------------------------------------------------------------------------
Repeat(ch, n) == [i \in 1 .. n |-> ch]

Script == <<"<", "s", "c", "r", "i", "p", "t", ">">>

\* each text with what the spec says is delivered for it (<<>>: nothing)
TextCases ==
    {[in |-> Str(Script),
      out |-> <<"&", "l", "t", ";", "s", "c", "r", "i", "p", "t", "&", "g", "t", ";">>],
     [in |-> Str(<<" ", "a", "\"", " ", "b", "\t", "\n">>),
      out |-> <<"a", "&", "q", "u", "o", "t", ";", " ", "b">>],
     [in |-> Str(<<" ">> \o Repeat("a", 201) \o <<" ">>), out |-> Repeat("a", 200)],
     [in |-> Str(Repeat("a", 199) \o <<"<", "b">>),
      out |-> Repeat("a", 199) \o <<"&", "l", "t", ";">>],
     [in |-> Str(<<" ", "\t", " ">>), out |-> <<>>],
     [in |-> Str(<<>>), out |-> <<>>],
     [in |-> [type |-> "number", val |-> <<"4", "2">>], out |-> <<>>]}

NextText ==
    \/ \E c \in RateConns : Connect(c)
    \/ \E c \in RateConns : \E data \in OwnJoin(c, {<<0, 0>>}) : PlayerJoin(c, data)
    \/ \E c \in ChatConns : \E case \in TextCases : ChatMessage(c, [message |-> case.in])

SpecText == Init /\ [][NextText]_vars

\* ------------------------------------------------------------------------
\* Malformed payloads: events sent with {} or with no payload at all
\* ------------------------------------------------------------------------
\* {} as the payload of player:join (x || 0 and y || 0 give 0)
EmptyJoin == [userId |-> Undef, nickname |-> Undef, x |-> 0, y |-> 0]

\* {} as the payload of football:kick
EmptyKick == Kick(UndefNum, UndefNum, UndefNum)

NextMalformed ==
    \/ \E c \in FootballConns : Connect(c)
    \/ \E c \in FootballConns : PlayerJoin(c, EmptyJoin)
    \/ \E c \in ChatConns : PlayerJoinNoPayload(c)
    \/ \E c \in ChatConns : FootballJoin(c, [team |-> Undef], "red")
    \/ \E c \in ChatConns : FootballKick(c, EmptyKick)
    \/ \E c \in ChatConns : FootballKickNoPayload(c)
    \/ PhysicsTick
    \/ Advance(KickStep, KickMaxElapsed)

SpecMalformed == Init /\ [][NextMalformed]_vars

\* ------------------------------------------------------------------------
\* Teams: joins with and without a team, either outcome of Math.random()
\* ------------------------------------------------------------------------
Teams == {"red", "blue"}

NextTeams ==
    \/ \E c \in Conns : Connect(c)
    \/ \E c \in Conns : Disconnect(c)
    \/ \E c \in Conns : \E team \in Teams \cup {"green", Undef} : \E rnd \in Teams :
         FootballJoin(c, [team |-> team], rnd)
    \/ \E c \in Conns : FootballLeave(c)

SpecTeams == Init /\ [][NextTeams]_vars

\* ------------------------------------------------------------------------
\* Rolling ball: one player, one kick, the physics loop at its period
\* ------------------------------------------------------------------------
RollStep == 16

RollMaxElapsed == 48

Shots == {Kick(Units(5), 0, 0), Kick(0 - Units(3), Units(4), UndefNum), Kick(0, Units(20), 0)}

NextRoll ==
    \/ \E c \in ChatConns : Connect(c)
    \/ \E c \in ChatConns : FootballJoin(c, [team |-> "blue"], "blue")
    \/ \E c \in ChatConns : \E data \in Shots : FootballKick(c, data)
    \/ PhysicsTick
    \/ Advance(RollStep, RollMaxElapsed)

SpecRoll == Init /\ [][NextRoll]_vars

\* ------------------------------------------------------------------------
\* Reading the emissions of a handler
\* ------------------------------------------------------------------------
Emissions(o, ev, sid) == {i \in DOMAIN o : o[i].ev = ev /\ o[i].sid = sid}

Count(o, ev, sid) == Cardinality(Emissions(o, ev, sid))

\* how many emissions of ev reach socket c
Received(o, ev, c) == Cardinality({i \in DOMAIN o : o[i].ev = ev /\ c \in o[i].to})

Handled(ev) == last.ev = ev /\ last.res # "closed"

HandledNext(ev) == last'.ev = ev /\ last'.res # "closed"

\* ------------------------------------------------------------------------
\* C4: after any sequence of player:join events the registry never holds two
\* entries with the same userId; after a join the joiner's entry is the only
\* one with its userId.
\* ------------------------------------------------------------------------
C4_UniqueUserId ==
    /\ \A i, j \in DOMAIN players :
          i # j => players[i].userId # players[j].userId
    /\ Handled("player:join") =>
          /\ MapHas(players, last.sid)
          /\ Cardinality({i \in DOMAIN players :
                 players[i].userId = MapGet(players, last.sid).userId}) = 1

\* a join that evicted an entry although no stored nickname can match (the
\* incoming nickname was absent): the eviction was by userId
C4_Witness ==
    /\ Handled("player:join")
    /\ MapGet(players, last.sid).nickname = "Anonymous"
    /\ \E i \in DOMAIN out : out[i].ev = "player:left"

\* ------------------------------------------------------------------------
\* C5: after any player:join no other registry entry has the same stored
\* display name as the entry just inserted.
\* ------------------------------------------------------------------------
C5_UniqueNickname ==
    Handled("player:join") =>
        \A i \in DOMAIN players :
            players[i].socketId # last.sid =>
                players[i].nickname # MapGet(players, last.sid).nickname

\* ------------------------------------------------------------------------
\* C6: each eviction during player:join broadcasts exactly one player:left
\* for the evicted socket, removes its entry, and closes its session, whose
\* later player:position and chat:message events change nothing.
\* ------------------------------------------------------------------------
Evicted(e) ==
    /\ HandledNext("player:join")
    /\ e # last'.sid
    /\ MapHas(players, e)
    /\ ~MapHas(players', e)

C6_Eviction ==
    /\ [][\A e \in Conns : Evicted(e) =>
            /\ Count(out', "player:left", e) = 1
            /\ sock'[e] = "closed"]_vars
    /\ [][(last'.ev \in {"player:position", "chat:message"} /\ sock[last'.sid] = "closed")
            => /\ UNCHANGED <<players, messageRateLimits, fbPlayers, room, sock>>
               /\ out' = <<>>]_vars

C6_Witness ==
    /\ Handled("player:join")
    /\ \E e \in Conns \ {last.sid} :
          /\ sock[e] = "closed"
          /\ Count(out, "player:left", e) = 1

\* ------------------------------------------------------------------------
\* C7: after player:join by c, players:list goes to c with exactly the
\* entries other than c that remain after eviction, and player:joined goes
\* to every other connected socket and not to c.
\* ------------------------------------------------------------------------
C7_JoinReplies ==
    Handled("player:join") =>
        LET c == last.sid
            lists == Emissions(out, "players:list", c)
            joined == Emissions(out, "player:joined", c)
        IN /\ Cardinality(lists) = 1
           /\ \A i \in lists :
                 /\ out[i].to = {c}
                 /\ MapKeys(out[i].data) = MapKeys(players) \ {c}
                 /\ Len(out[i].data) = Cardinality(MapKeys(players) \ {c})
                 /\ \A k \in DOMAIN out[i].data :
                       /\ sock[out[i].data[k].socketId] = "open"
                       /\ out[i].data[k] = MapGet(players, out[i].data[k].socketId)
           /\ Cardinality(joined) = 1
           /\ \A i \in joined : out[i].to = {s \in Conns : sock[s] = "open"} \ {c}

\* a join that evicted one entry and still lists another
C7_Witness ==
    /\ Handled("player:join")
    /\ \E i \in DOMAIN out : out[i].ev = "player:left"
    /\ \E i \in DOMAIN out : out[i].ev = "players:list" /\ out[i].data # <<>>

\* ------------------------------------------------------------------------
\* C9: the first leave of a registered socket removes its entry and its
\* rate-limit state and broadcasts one player:left; a second leave or a later
\* disconnect changes no state and broadcasts no further player:left.
\* ------------------------------------------------------------------------
FirstLeave ==
    (HandledNext("player:leave") /\ MapHas(players, last'.sid)) =>
        /\ ~MapHas(players', last'.sid)
        /\ ~messageRateLimits'[last'.sid].has
        /\ Count(out', "player:left", last'.sid) = 1

AfterLeave(evs) ==
    /\ last'.ev \in evs
    /\ last'.res # "closed"
    /\ last'.sid \in hasLeft

C9_Original ==
    /\ [][FirstLeave]_vars
    /\ [][AfterLeave({"player:leave", "disconnect"}) =>
            /\ UNCHANGED <<players, messageRateLimits, fbPlayers, room>>
            /\ Count(out', "player:left", last'.sid) = 0]_vars

\* C9 as amended: the later disconnect leaves the registry and the rate-limit
\* table alone and broadcasts no player:left (it still cleans the football
\* ground)
C9_IdempotentLeave ==
    /\ [][FirstLeave]_vars
    /\ [][AfterLeave({"player:leave"}) =>
            /\ UNCHANGED <<players, messageRateLimits, fbPlayers, room, sock>>
            /\ out' = <<>>]_vars
    /\ [][AfterLeave({"disconnect"}) =>
            /\ UNCHANGED <<players, messageRateLimits>>
            /\ Count(out', "player:left", last'.sid) = 0]_vars

\* a second leave of a socket that had sent messages before its first leave
C9_Witness ==
    /\ last.ev = "player:leave"
    /\ last.res = "ignored"
    /\ last.sid \in hasLeft

\* ------------------------------------------------------------------------
\* C10: a disconnect (client-side or forced by eviction) of a socket that is
\* in both registries removes it from both and broadcasts player:left to the
\* general world and football:playerLeft to the football room.
\* ------------------------------------------------------------------------
C10_FullDisconnect ==
    [][\A c \in Conns :
         (/\ sock[c] = "open" /\ sock'[c] = "closed"
          /\ MapHas(players, c) /\ MapHas(fbPlayers, c))
         => /\ ~MapHas(players', c)
            /\ ~MapHas(fbPlayers', c)
            /\ c \notin room'
            /\ Count(out', "player:left", c) = 1
            /\ \A i \in Emissions(out', "player:left", c) :
                  {s \in Conns : sock'[s] = "open"} \subseteq out'[i].to
            /\ Count(out', "football:playerLeft", c) = 1
            /\ \A i \in Emissions(out', "football:playerLeft", c) :
                  room' \subseteq out'[i].to]_vars

\* a forced disconnect of a socket that was in the football ground, seen by
\* another member of the room
C10_Witness ==
    /\ Handled("player:join")
    /\ \E e \in Conns \ {last.sid} :
          /\ sock[e] = "closed"
          /\ Count(out, "player:left", e) = 1
          /\ \E i \in Emissions(out, "football:playerLeft", e) : out[i].to # {}

\* ------------------------------------------------------------------------
\* C1: for every accepted chat:message from registered A, every other
\* registered B receives exactly one chat:received if its distance to A is
\* <= 200 (200 itself included) and none if it is > 200; A receives exactly
\* one echo.
\* ------------------------------------------------------------------------
SquaredDistance(a, b) == (a.x - b.x) * (a.x - b.x) + (a.y - b.y) * (a.y - b.y)

Within(a, b, d) == SquaredDistance(a, b) <= d * d

C1_ProximityDelivery ==
    (Handled("chat:message") /\ last.res = "delivered") =>
        LET A == last.sid
        IN /\ Received(out, "chat:received", A) = 1
           /\ \A B \in MapKeys(players) \ {A} :
                 Received(out, "chat:received", B) =
                    IF Within(MapGet(players, A), MapGet(players, B), PROXIMITY_THRESHOLD)
                    THEN 1 ELSE 0

\* a delivery with one listener exactly 200 away and one farther away
C1_Witness ==
    /\ Handled("chat:message")
    /\ last.res = "delivered"
    /\ \E B, C \in MapKeys(players) \ {last.sid} :
          /\ SquaredDistance(MapGet(players, last.sid), MapGet(players, B)) = 200 * 200
          /\ Received(out, "chat:received", B) = 1
          /\ SquaredDistance(MapGet(players, last.sid), MapGet(players, C)) > 200 * 200
          /\ Received(out, "chat:received", C) = 0

\* ------------------------------------------------------------------------
\* C2: for one connection, within any 1-second window of time at most 5
\* chat messages pass the rate limit.
\* ------------------------------------------------------------------------
\* as claimed: six passes never lie less than one second apart
C2_AnyWindow ==
    \A c \in Conns :
        Len(passLog[c]) >= MESSAGE_RATE_LIMIT + 1 =>
            passLog[c][Len(passLog[c])] - passLog[c][Len(passLog[c]) - MESSAGE_RATE_LIMIT]
                >= RATE_WINDOW

PassedInWindow(c) ==
    {i \in DOMAIN passLog[c] :
        passLog[c][i] >= messageRateLimits[c].resetTime - RATE_WINDOW}

\* C2 as amended: within one fixed window of the connection's rate-limit
\* state (opened by the first message after the state was absent or had
\* expired, lasting until now > resetTime) at most 5 messages pass, and a
\* further message in that window is rejected.
C2_FixedWindow ==
    /\ [](\A c \in Conns :
            messageRateLimits[c].has => Cardinality(PassedInWindow(c)) <= MESSAGE_RATE_LIMIT)
    /\ [][\A c \in Conns :
            (/\ HandledNext("chat:message") /\ last'.sid = c /\ MapHas(players, c)
             /\ Cardinality(PassedInWindow(c)) = MESSAGE_RATE_LIMIT
             /\ messageRateLimits[c].has /\ now <= messageRateLimits[c].resetTime)
            => last'.res = "rejected"]_vars

\* a sixth message rejected inside a window in which five have passed
C2_Witness ==
    /\ Handled("chat:message")
    /\ last.res = "rejected"
    /\ Cardinality(PassedInWindow(last.sid)) = MESSAGE_RATE_LIMIT

\* ------------------------------------------------------------------------
\* C3: a chat:message rejected by the rate limit emits exactly one
\* chat:error, to the sender only, no chat:received to anyone, and leaves the
\* sender's rate-limit counter and window unchanged.
\* ------------------------------------------------------------------------
C3_Rejection ==
    [][(HandledNext("chat:message") /\ last'.res = "rejected") =>
         /\ Len(out') = 1
         /\ out'[1].ev = "chat:error"
         /\ out'[1].to = {last'.sid}
         /\ messageRateLimits'[last'.sid] = messageRateLimits[last'.sid]]_vars

\* a rejection while a listener stands next to the sender
C3_Witness ==
    /\ Handled("chat:message")
    /\ last.res = "rejected"
    /\ \E B \in MapKeys(players) \ {last.sid} :
          Within(MapGet(players, last.sid), MapGet(players, B), PROXIMITY_THRESHOLD)

\* ------------------------------------------------------------------------
\* C8: of two player:position updates from the same registered connection
\* less than 50 ms apart, the first is applied and broadcast and the second
\* changes no state and emits nothing.
\* ------------------------------------------------------------------------
C8_Throttle ==
    [][\A c \in Conns :
         (/\ HandledNext("player:position") /\ last'.sid = c
          /\ prevPos[c].res \in {"applied", "throttled"}
          /\ last'.res \in {"applied", "throttled"}
          /\ now - prevPos[c].t < POSITION_UPDATE_THROTTLE)
         => /\ prevPos[c].res = "applied"
            /\ last'.res = "throttled"
            /\ UNCHANGED <<players, messageRateLimits, fbPlayers, room, sock>>
            /\ out' = <<>>]_vars

\* ------------------------------------------------------------------------
\* C11: at each idle sweep every registry entry whose lastUpdate is more
\* than 5 minutes old is removed, its socket is sent connection:timeout and
\* one player:left for it goes to everyone; newer entries are untouched.
\* ------------------------------------------------------------------------
C11_IdleSweep ==
    [][HandledNext("idle:sweep") =>
         \A i \in DOMAIN players :
            LET e == players[i]
            IN IF now - e.lastUpdate > 300000
               THEN /\ ~MapHas(players', e.socketId)
                    /\ Count(out', "connection:timeout", e.socketId) = 1
                    /\ \A k \in Emissions(out', "connection:timeout", e.socketId) :
                          out'[k].to = {e.socketId}
                    /\ Count(out', "player:left", e.socketId) = 1
                    /\ \A k \in Emissions(out', "player:left", e.socketId) :
                          out'[k].to = {s \in Conns : sock[s] = "open"}
               ELSE /\ MapHas(players', e.socketId)
                    /\ MapGet(players', e.socketId) = e
                    /\ Count(out', "connection:timeout", e.socketId) = 0
                    /\ Count(out', "player:left", e.socketId) = 0]_vars

\* a sweep that removed one entry and kept one that is exactly 5 minutes old
C11_Witness ==
    /\ Handled("idle:sweep")
    /\ \E i \in DOMAIN out : out[i].ev = "player:left"
    /\ \E i \in DOMAIN players : now - players[i].lastUpdate = 300000

\* ------------------------------------------------------------------------
\* C12: in every reachable state the ball's speed sqrt(vx^2 + vy^2) is at
\* most BALL_MAX_SPEED (20).  The kick handler stores the client's vector
\* unclamped, so the cap is broken from a kick until the next tick.
\* ------------------------------------------------------------------------
C12_SpeedCap == ~NumGt(Speed(ball.vx, ball.vy), Units(BALL_MAX_SPEED))

\* ------------------------------------------------------------------------
\* C13: on a tick where the integrated ball has x < padding - goalDepth/2
\* and y inside the closed band [goalTop, goalBottom], blue's score grows
\* by exactly 1, red's is unchanged, isPlaying becomes false and neither a
\* wall collision nor the periodic sync is processed; symmetrically for
\* x > width - padding + goalDepth/2 and red.  The code tests the band
\* strictly, so a ball on the edge of the band scores nothing.
\* ------------------------------------------------------------------------
Emitted(o, ev) == \E i \in DOMAIN o : o[i].ev = ev

TickRuns == HandledNext("physics:tick") /\ fbPlayers # <<>> /\ isPlaying

InBand(y) == IsNum(y) /\ y >= GoalTop /\ y <= GoalBottom

GoalFor(team, other) ==
    /\ score'[team] = score[team] + 1
    /\ score'[other] = score[other]
    /\ ~isPlaying'
    /\ ball'.x = Integrate(ball).x
    /\ ball'.y = Integrate(ball).y
    /\ ~Emitted(out', "football:ballUpdate")
    /\ lastBallSync' = lastBallSync

C13_GoalBand ==
    [][TickRuns =>
         LET b == Integrate(ball)
         IN /\ (NumLt(b.x, LeftGoalLine) /\ InBand(b.y)) => GoalFor("blue", "red")
            /\ (NumGt(b.x, RightGoalLine) /\ InBand(b.y)) => GoalFor("red", "blue")]_vars

\* ------------------------------------------------------------------------
\* C14: after every goal the reset fires 3000 ms later, whatever joins,
\* leaves or disconnects happen in between and even when no football player
\* remains: the ball is then at field centre with zero velocity, isPlaying
\* is true again and football:gameState is broadcast to the room.
\* ------------------------------------------------------------------------
GoalStep == HandledNext("physics:tick") /\ last'.res = "goal"

ResetEffect ==
    /\ ball'.x = Units(400) /\ ball'.y = Units(300)
    /\ ball'.vx = 0 /\ ball'.vy = 0
    /\ isPlaying'
    /\ \E i \in DOMAIN out' :
         /\ out'[i].ev = "football:gameState"
         /\ out'[i].to = room'
         /\ out'[i].data.isPlaying

C14_ResetFires ==
    /\ [][GoalStep => ~isPlaying' /\ resetTimers' = <<now' + 3000>>]_vars
    /\ [][HandledNext("goal:reset") => now' = resetTimers[1] /\ ResetEffect]_vars
    /\ [][~isPlaying /\ isPlaying' => HandledNext("goal:reset")]_vars
    /\ ~isPlaying ~> Handled("goal:reset")

C14_Witness ==
    Handled("goal:reset") /\ fbPlayers = <<>> /\ room = {} /\ isPlaying /\ score.blue = 1

\* ------------------------------------------------------------------------
\* C15: a football:kick from a connection whose previous accepted kick was
\* less than 300 ms earlier is ignored and leaves the ball unchanged,
\* whatever happened in between (that connection's football:leave and
\* football:join included); the cooldown is per player, so a kick of a
\* different player within that interval is accepted.  football:join builds
\* a fresh record without lastKickTime, so leaving and joining again lifts
\* the cooldown.
\* ------------------------------------------------------------------------
KickedBefore(c) == kickLog[c] # 0

InCooldown(c) == KickedBefore(c) /\ now - kickLog[c] < 300

KickFrom(c) == HandledNext("football:kick") /\ last'.sid = c

C15_KickCooldown ==
    [][\A c \in Conns :
         /\ (KickFrom(c) /\ InCooldown(c)) =>
               ball' = ball /\ ~Emitted(out', "football:ballUpdate")
         /\ (KickFrom(c) /\ ~InCooldown(c) /\ MapHas(fbPlayers, c) /\ isPlaying) =>
               ball'.lastKickedBy = c /\ ball'.lastKickTime = now]_vars

\* ------------------------------------------------------------------------
\* C16: football:kick changes nothing and broadcasts nothing when the
\* connection is not in the football registry (even if it is in the general
\* registry) or when isPlaying is false; an accepted kick overwrites the
\* ball's velocity and spin with the kick values, records the kicker and the
\* kick time on the ball, and broadcasts football:ballUpdate to the room at
\* once.  Stated of the handler in every reachable state, for every kick.
\* ------------------------------------------------------------------------
KickIsNoop(r) ==
    /\ r.out = <<>>
    /\ r.ball = ball /\ r.fb = fbPlayers /\ r.score = score
    /\ r.isPlaying = isPlaying /\ r.players = players /\ r.room = room

KickIsApplied(r, c, data) ==
    /\ r.ball.vx = data.vx /\ r.ball.vy = data.vy
    /\ r.ball.spin = (IF data.spin = UndefNum THEN 0 ELSE data.spin)
    /\ r.ball.x = ball.x /\ r.ball.y = ball.y
    /\ r.ball.lastKickedBy = c /\ r.ball.lastKickTime = now
    /\ Len(r.out) = 1
    /\ r.out[1].ev = "football:ballUpdate"
    /\ r.out[1].to = room
    /\ r.out[1].data = r.ball

C16_Kick ==
    \A c \in Conns : \A data \in Kicks :
        LET r == OnFootballKick(Server, c, data, now)
        IN sock[c] = "open" =>
             /\ (~MapHas(fbPlayers, c) \/ ~isPlaying) => KickIsNoop(r)
             /\ (MapHas(fbPlayers, c) /\ isPlaying /\ ~InCooldown(c)) =>
                   KickIsApplied(r, c, data)

\* an accepted kick on a ball that was moving, by a connection that is also
\* in the general registry
C16_Witness ==
    /\ Handled("football:kick") /\ last.res = "kicked"
    /\ ball.x # Units(400)
    /\ MapHas(players, "s1")
    /\ Len(out) = 1 /\ out[1].data = ball

\* ------------------------------------------------------------------------
\* C17: while isPlaying is false or the football registry is empty a
\* physics tick changes nothing (ball, score, lastBallSync) and broadcasts
\* nothing; a football:join during the goal cooldown is still accepted into
\* the registry, and the ball stays frozen until the reset fires.
\* ------------------------------------------------------------------------
TickIdle ==
    /\ ball' = ball /\ score' = score /\ lastBallSync' = lastBallSync
    /\ isPlaying' = isPlaying /\ fbPlayers' = fbPlayers
    /\ out' = <<>>

C17_Suspended ==
    /\ [][(HandledNext("physics:tick") /\ (~isPlaying \/ fbPlayers = <<>>)) => TickIdle]_vars
    /\ [][(HandledNext("football:join") /\ ~isPlaying) =>
            MapHas(fbPlayers', last'.sid) /\ last'.sid \in room' /\ ball' = ball]_vars
    /\ [][(~isPlaying /\ ball' # ball) => HandledNext("goal:reset")]_vars

\* a tick during the goal cooldown, after a player has joined during it
C17_Witness ==
    /\ Handled("physics:tick") /\ ~isPlaying
    /\ resetTimers # <<>>
    /\ \E i \in DOMAIN fbPlayers : fbPlayers[i].lastUpdate > resetTimers[1] - 3000

\* ------------------------------------------------------------------------
\* C18: the delivered chat text is the trimmed input truncated to 200
\* characters with every '<', '>' and '"' replaced by '&lt;', '&gt;' and
\* '&quot;' ('<script>' is delivered as '&lt;script&gt;'); an input that is
\* empty, all whitespace or not a string is delivered to nobody.  Stated of
\* the handler in every reachable state, for every text of TextCases, when
\* the sender is registered and within its rate limit.
\* ------------------------------------------------------------------------
Texts(o) == {o[i].data.message : i \in {j \in DOMAIN o : o[j].ev = "chat:received"}}

Sends(c) == sock[c] = "open" /\ MapHas(players, c)

C18_Sanitized ==
    \A c \in Conns : \A case \in TextCases :
        LET r == OnChatMessage(Server, c, [message |-> case.in], now)
        IN (Sends(c) /\ ~Emitted(r.out, "chat:error")) =>
             IF case.out = <<>> THEN r.out = <<>> ELSE Texts(r.out) = {case.out}

\* the other player has received the escaped script tag
C18_Witness ==
    /\ Handled("chat:message")
    /\ \E i \in DOMAIN out :
         /\ out[i].ev = "chat:received" /\ out[i].to = {"s2"}
         /\ out[i].data.message =
              <<"&", "l", "t", ";", "s", "c", "r", "i", "p", "t", "&", "g", "t", ";">>

\* ------------------------------------------------------------------------
\* C19: the sanitized text of every delivered message is at most 200
\* characters long, for every input string.  The text is truncated before
\* it is escaped, and escaping lengthens it.
\* ------------------------------------------------------------------------
C19_TextLength == \A m \in Texts(out) : Len(m) <= 200

\* ------------------------------------------------------------------------
\* C20: a chat:message whose sanitized text is empty is a no-op: nothing is
\* delivered and all server state, the sender's rate-limit counter and
\* window included, is as before the call.  The rate limit is charged
\* before the text is sanitized.
\* ------------------------------------------------------------------------
C20_EmptyNoop ==
    \A c \in Conns : \A case \in TextCases :
        LET r == OnChatMessage(Server, c, [message |-> case.in], now)
        IN (Sends(c) /\ case.out = <<>>) =>
             /\ ~Emitted(r.out, "chat:received")
             /\ r.limits = messageRateLimits
             /\ r.players = players

\* ------------------------------------------------------------------------
\* C21: player:position and chat:message from a connection that is not in
\* the general registry (never joined, left, evicted or timed out) are
\* silently ignored: nothing is emitted, the registry does not change and no
\* rate-limit entry is created or changed.
\* ------------------------------------------------------------------------
FromStranger ==
    /\ HandledNext("player:position") \/ HandledNext("chat:message")
    /\ ~MapHas(players, last'.sid)

C21_UnknownIgnored ==
    [][FromStranger =>
         /\ out' = <<>>
         /\ players' = players
         /\ messageRateLimits' = messageRateLimits
         /\ fbPlayers' = fbPlayers /\ room' = room /\ sock' = sock]_vars

\* a chat message of a connection that has left the world
C21_Witness ==
    /\ Handled("chat:message")
    /\ last.sid \in hasLeft
    /\ ~MapHas(players, last.sid)
    /\ players # <<>>

\* ------------------------------------------------------------------------
\* C22: for every inbound event a malformed payload (absent, or with fields
\* missing) raises no exception and degrades to a no-op that leaves the
\* registries and the ball and match state unchanged.  Stated for
\* player:join and football:kick: no handler ends in a TypeError, and in
\* every reachable state the handlers leave the state alone when given {}.
\* ------------------------------------------------------------------------
Untouched(r) ==
    /\ r.players = players /\ r.fb = fbPlayers
    /\ r.ball = ball /\ r.score = score /\ r.isPlaying = isPlaying

C22_Malformed ==
    /\ [][last'.res # "TypeError"]_vars
    /\ [](\A c \in Conns : sock[c] = "open" =>
             /\ Untouched(OnPlayerJoin(Server, c, EmptyJoin, now))
             /\ Untouched(OnFootballKick(Server, c, EmptyKick, now)))

\* ------------------------------------------------------------------------
\* C23: a football:join that supplies a team stores exactly that team; one
\* that supplies none gets red or blue chosen so that the teams stay
\* balanced; in every reachable state the team of each football registry
\* entry is red or blue.  The code stores any truthy team as it comes and
\* otherwise draws the team at random.
\* ------------------------------------------------------------------------
TeamSize(fb, team) == Cardinality({i \in DOMAIN fb : fb[i].team = team})

Balanced(fb) ==
    /\ TeamSize(fb, "red") - TeamSize(fb, "blue") <= 1
    /\ TeamSize(fb, "blue") - TeamSize(fb, "red") <= 1

C23_Teams ==
    /\ [](\A i \in DOMAIN fbPlayers : fbPlayers[i].team \in {"red", "blue"})
    /\ [](\A c \in Conns : \A team \in {"red", "blue"} : \A rnd \in {"red", "blue"} :
             sock[c] = "open" =>
               /\ MapGet(OnFootballJoin(Server, c, [team |-> team], rnd, now).fb, c).team
                    = team
               /\ Balanced(fbPlayers) =>
                    Balanced(OnFootballJoin(Server, c, [team |-> Undef], rnd, now).fb))

\* ------------------------------------------------------------------------
\* C24: one physics tick integrates the position with the velocity it
\* finds and applies friction only then: from velocity (5,0) with spin 0 at
\* field centre, after one tick x has advanced by exactly 5 and the velocity
\* is (5 * 0.985, 0) = (4.925, 0).  Positions and velocities in thousandths.
\* ------------------------------------------------------------------------
AtCentreRolling ==
    /\ ball.x = 400000 /\ ball.y = 300000
    /\ ball.vx = 5000 /\ ball.vy = 0 /\ ball.spin = 0

\* the integrated position is strictly inside the four walls
StaysInside ==
    /\ ball.x + ball.vx > 50000 /\ ball.x + ball.vx < 750000
    /\ ball.y + ball.vy > 50000 /\ ball.y + ball.vy < 550000

C24_TickOrder ==
    [][(TickRuns /\ IsNum(ball.vx) /\ IsNum(ball.vy)) =>
         /\ AtCentreRolling =>
               /\ ball'.x = 405000 /\ ball'.y = 300000
               /\ ball'.vx = 4925 /\ ball'.vy = 0
         /\ StaysInside =>
               ball'.x = ball.x + ball.vx /\ ball'.y = ball.y + ball.vy]_vars

C24_Witness ==
    /\ Handled("physics:tick")
    /\ ball.x = 405000 /\ ball.y = 300000 /\ ball.vx = 4925 /\ ball.vy = 0

\* ------------------------------------------------------------------------
\* C25: isPlaying is false exactly while a goal reset is pending: at most
\* one reset timer is pending at any time, no second goal can be scored
\* before the pending reset fires, and no team's score ever decreases.
\* ------------------------------------------------------------------------
ResetPending == resetTimers # <<>>

C25_Cooldown ==
    /\ [](isPlaying <=> ~ResetPending)
    /\ [](Len(resetTimers) <= 1)
    /\ [][ResetPending => score' = score]_vars
    /\ [][score'.red >= score.red /\ score'.blue >= score.blue]_vars
    /\ [][score' # score => score'.red + score'.blue = score.red + score.blue + 1]_vars

\* play has resumed after a goal of red, ticks running again
C25_Witness ==
    /\ Handled("physics:tick") /\ last.res # "skipped"
    /\ score.red = 1 /\ isPlaying /\ ~ResetPending

\* ------------------------------------------------------------------------
\* C26: the rate-limit counter of a connection never exceeds 5; it is set
\* to 1 with a fresh window of 1000 ms exactly when a message arrives with
\* now > resetTime, and every other accepted message adds 1 to it (the
\* first message of a connection counting from 0 in a window opened then).
\* ------------------------------------------------------------------------
Charged(before, after) ==
    IF before.has /\ now > before.resetTime
    THEN after = [has |-> TRUE, count |-> 1, resetTime |-> now + 1000]
    ELSE IF ~before.has
    THEN after = [has |-> TRUE, count |-> 1, resetTime |-> now + 1000]
    ELSE IF before.count < 5
    THEN after = [before EXCEPT !.count = @ + 1]
    ELSE after = before /\ Emitted(out', "chat:error")

C26_Counter ==
    /\ [](\A c \in Conns : messageRateLimits[c].has =>
             messageRateLimits[c].count \in 1 .. 5)
    /\ [][\A c \in Conns :
            (HandledNext("chat:message") /\ last'.sid = c /\ MapHas(players, c)) =>
               /\ Charged(messageRateLimits[c], messageRateLimits'[c])
               /\ \A d \in Conns \ {c} : messageRateLimits'[d] = messageRateLimits[d]]_vars

\* the count is back at 1 after a full window
C26_Witness ==
    /\ Handled("chat:message")
    /\ \E c \in Conns :
         /\ last.sid = c
         /\ messageRateLimits[c].has /\ messageRateLimits[c].count = 1
         /\ Len(passLog[c]) >= 5
         /\ messageRateLimits[c].resetTime = now + 1000

\* ------------------------------------------------------------------------
\* C27: after every physics tick that scores no goal the ball is inside the
\* playing area: padding <= y <= height - padding, and padding <= x <=
\* width - padding unless y lies in the goal-mouth band, where
\* padding - goalDepth/2 <= x <= width - padding + goalDepth/2; no kick and
\* no y (goalTop and goalBottom themselves included) lets the ball pass a
\* side boundary without a goal or a bounce.  Both the goal test and the
\* side-wall test exclude the two edges of the band, so a ball moving along
\* an edge passes.
\* ------------------------------------------------------------------------
Between(lo, v, hi) == IsNum(v) /\ lo <= v /\ v <= hi

InPlayingArea(b) ==
    /\ Between(50000, b.y, 550000)
    /\ IF Between(260000, b.y, 340000)
       THEN Between(37500, b.x, 762500)
       ELSE Between(50000, b.x, 750000)

C27_InsideField ==
    [][(TickRuns /\ score' = score /\ IsNum(ball.vx) /\ IsNum(ball.vy))
         => InPlayingArea(ball')]_vars

\* ------------------------------------------------------------------------
\* C28: in every reachable state the ball's x, y, vx, vy and spin are
\* defined finite numbers; in particular the ball has spin 0 after a goal
\* reset and, if nobody kicks it, the following ticks leave it at field
\* centre with zero velocity.  The reset builds a ball object without a
\* spin, and the tick's test spin !== 0 then lets undefined into the
\* velocity.
\* ------------------------------------------------------------------------
BallIsFinite ==
    /\ IsNum(ball.x) /\ IsNum(ball.y)
    /\ IsNum(ball.vx) /\ IsNum(ball.vy)
    /\ IsNum(ball.spin)

AtRest(b) == b.x = 400000 /\ b.y = 300000 /\ b.vx = 0 /\ b.vy = 0

C28_FiniteBall ==
    /\ []BallIsFinite
    /\ [][HandledNext("goal:reset") => ball'.spin = 0]_vars
    /\ [][(HandledNext("physics:tick") /\ AtRest(ball)) => AtRest(ball')]_vars

\* ------------------------------------------------------------------------
\* C29: in every reachable state the connections holding rate-limit state
\* are connections of the general registry: every path that removes a
\* registry entry (leave, disconnect, duplicate eviction, idle sweep) also
\* removes the rate-limit entry.  The eviction deletes the registry entry
\* before it disconnects the socket, so the disconnect handler finds no
\* player and skips the delete; the sweep never deletes it.
\* ------------------------------------------------------------------------
C29_LimitsWithinRegistry ==
    \A c \in Conns : messageRateLimits[c].has => MapHas(players, c)

\* ------------------------------------------------------------------------
\* C30: in every reachable state the members of the football room are
\* exactly the connections of the football registry: football:join adds to
\* both, football:leave and disconnect remove from both, and the events of
\* the general world (player:leave, idle sweep) change neither.
\* ------------------------------------------------------------------------
FootballIds(fb) == {fb[i].socketId : i \in DOMAIN fb}

SweepAll == OnIdleSweep(Server, now + 300001)

C30_RoomIsRegistry ==
    /\ [](room = FootballIds(fbPlayers))
    /\ [][HandledNext("football:join") =>
            last'.sid \in room' /\ MapHas(fbPlayers', last'.sid)]_vars
    /\ [][HandledNext("football:leave") =>
            last'.sid \notin room' /\ ~MapHas(fbPlayers', last'.sid)]_vars
    /\ [][\A c \in Conns : sock'[c] = "closed" => c \notin room' /\ ~MapHas(fbPlayers', c)]_vars
    /\ [][HandledNext("player:leave") => fbPlayers' = fbPlayers /\ room' = room]_vars
    /\ [](SweepAll.fb = fbPlayers /\ SweepAll.room = room)

\* a connection has left the general world and is still on the ground
C30_Witness ==
    /\ Handled("player:leave") /\ last.res = "left"
    /\ last.sid \in room /\ MapHas(fbPlayers, last.sid)
    /\ \E c \in Conns : sock[c] = "closed"

====
